---------------------------- MODULE Spec2Model ----------------------------
(***************************************************************************)
(* MyAgriBot (src/app.py): the per-user conversation state machine, the    *)
(* menu navigation driven by button callbacks, the two lookup adapters,    *)
(* the market query and the catch-all error handler.                       *)
(*                                                                         *)
(* A Python string is a sequence of symbols: a symbol is one character     *)
(* ("C", "h", " ") or one literal of the program taken as a whole          *)
(* ("crop_info", "mandi_district_").  Every handler is a coroutine: an     *)
(* action runs it from one await to the next, together with the outcome of *)
(* the awaited transport call (delivered, or raising telegram.error).      *)
(***************************************************************************)
EXTENDS Integers, Sequences, FiniteSets, TLC

(***************************************************************************)
(* Bounds of the model.                                                    *)
(***************************************************************************)
\* records generated at start-up (range(200) in the source)
NumRecords == 2
\* handler invocations that can exist at once
MaxTasks == 2
\* district buttons a user presses: the first NumPressed of the list
NumPressed == 5

Users == {"u1", "u2"}
Tasks == 1..MaxTasks

(***************************************************************************)
(* Strings.                                                                *)
(***************************************************************************)
Str(s) == <<s>>

UPPER == <<"A","B","C","D","E","F","G","H","I","J","K","L","M",
           "N","O","P","Q","R","S","T","U","V","W","X","Y","Z">>
LOWER == <<"a","b","c","d","e","f","g","h","i","j","k","l","m",
           "n","o","p","q","r","s","t","u","v","w","x","y","z">>
WHITESPACE == {" ", "\t", "\n"}

\* str.lower(), one character
lower_char(c) ==
    IF \E i \in 1..26 : UPPER[i] = c
    THEN LOWER[CHOOSE i \in 1..26 : UPPER[i] = c]
    ELSE c

\* str.lower()
lower(s) == [i \in 1..Len(s) |-> lower_char(s[i])]

\* str.strip(): drops the leading and the trailing whitespace
strip(s) ==
    LET keep == {i \in 1..Len(s) : s[i] \notin WHITESPACE}
    IN  IF keep = {} THEN <<>>
        ELSE LET lo == CHOOSE i \in keep : \A j \in keep : i <= j
                 hi == CHOOSE i \in keep : \A j \in keep : j <= i
             IN  SubSeq(s, lo, hi)

\* startswith taking every string
startswith_Any(s, p) == TRUE

\* str.startswith(p), p a literal of the program
startswith(s, p) == Len(s) >= 1 /\ s[1] = p

\* str.replace(p, ''), p a literal of the program: every occurrence goes
replace_away(s, p) == SelectSeq(s, LAMBDA x : x # p)

(***************************************************************************)
(* Sample mandi data (src/app.py 48-72).                                   *)
(***************************************************************************)
districts ==
    << <<"C","h","e","n","n","a","i">>,
       <<"N","a","g","e","r","c","o","i","l"," ","(","K","a","n","n","i","y","a","k","u","m","a","r","i",")">>,
       <<"C","o","i","m","b","a","t","o","r","e">>,
       <<"M","a","d","u","r","a","i">>,
       <<"S","a","l","e","m">>,
       <<"E","r","o","d","e">>,
       <<"T","i","r","u","c","h","i","r","a","p","p","a","l","l","i">>,
       <<"T","i","r","u","n","e","l","v","e","l","i">>,
       <<"T","i","r","u","p","p","u","r">>,
       <<"V","e","l","l","o","r","e">>,
       <<"V","i","l","l","u","p","u","r","a","m">>,
       <<"V","i","r","u","d","h","u","n","a","g","a","r">>,
       <<"K","a","n","c","h","i","p","u","r","a","m">>,
       <<"K","a","r","u","r">>,
       <<"N","a","m","a","k","k","a","l">> >>

\* One generated record; the model draws the district and the commodity and
\* fixes the other random fields at one value of their range.
Rec(d, c) ==
    [state |-> "Tamil Nadu", district |-> d, market |-> "Market A",
     commodity |-> c, variety |-> "Local", arrival_date |-> "18/03/2025",
     min_price |-> 1000, max_price |-> 5001, modal_price |-> 3000]

\* the records random.choice can produce, cut to two districts
SampleRecords == {Rec(districts[1], "Tomato"), Rec(districts[5], "Potato")}

\* the catalogs the start-up loop can produce, cut to NumRecords records
Catalogs == [1..NumRecords -> SampleRecords]

(***************************************************************************)
(* Market query (src/app.py 75-99).                                        *)
(***************************************************************************)
\* get_mandi_data_by_district without the condition of line 78
get_mandi_data_by_district_All(catalog, district) == catalog

\* get_mandi_data_by_district taking a district that begins with the query
get_mandi_data_by_district_Prefix(catalog, district) ==
    SelectSeq(catalog,
              LAMBDA rec :
                  LET stored == lower(strip(rec.district))
                      query == lower(strip(district))
                  IN  /\ Len(query) <= Len(stored)
                      /\ SubSeq(stored, 1, Len(query)) = query)

\* get_mandi_data_by_district: the records of the catalog whose district is
\* the queried one, both stripped and lower-cased
get_mandi_data_by_district(catalog, district) ==
    SelectSeq(catalog,
              LAMBDA rec : lower(strip(rec.district)) = lower(strip(district)))

\* A text the bot displays: which template, and what fills it.
Text(id, name, fields, blocks, n) ==
    [id |-> id, name |-> name, fields |-> fields, blocks |-> blocks, n |-> n]
Fixed(id) == Text(id, <<>>, <<>>, <<>>, 0)

NO_DATA == Fixed("No data found for this district.")

\* the summary without the slice of line 88
FirstFive_All(records) == records

\* records[:5]
FirstFive(records) ==
    SubSeq(records, 1, IF Len(records) < 5 THEN Len(records) ELSE 5)

\* format_mandi_data_simple: the no-data message, or the header with the
\* first record's district, a block per record of records[:5], and the
\* number of further records when there are more than five (0: no note)
format_mandi_data_simple(records) ==
    IF records = <<>> THEN NO_DATA
    ELSE Text("Mandi Prices for", records[1].district, <<>>,
              FirstFive(records),
              IF Len(records) > 5 THEN Len(records) - 5 ELSE 0)


(***************************************************************************)
(* External lookup adapters (src/app.py 101-159).                          *)
(*                                                                         *)
(* What requests.get gives back: net is "ok" or the exception requests.get *)
(* raises, status is the HTTP status, body is the decoded JSON.  In a JSON *)
(* object a key can be missing (MISSING) or null (NONE).                   *)
(***************************************************************************)
MISSING == Str("<missing>")
NONE == Str("<None>")

Response(net, status, body) == [net |-> net, status |-> status, body |-> body]

\* dict.get(key, 'N/A')
get_or_na(v) == IF v = MISSING THEN Str("N/A") ELSE v

\* v or 'Not available.'
or_not_available(v) == IF v \in {NONE, <<>>} THEN Str("Not available.") ELSE v

CropAttributes(name, description, sun, sowing) ==
    [name |-> name, description |-> description,
     sun_requirements |-> sun, sowing_method |-> sowing]

NoAttributes == CropAttributes(MISSING, MISSING, MISSING, MISSING)

\* the bodies the crop service is modelled to answer with
CropBodies ==
    { [has_data |-> FALSE, data |-> <<>>],
      [has_data |-> TRUE, data |-> <<>>],
      [has_data |-> TRUE,
       data |-> << [has_attributes |-> FALSE, attributes |-> NoAttributes] >>],
      [has_data |-> TRUE,
       data |-> << [has_attributes |-> TRUE,
                    attributes |-> CropAttributes(Str("Tomato"), Str("A fruit."),
                                                  Str("Full Sun"), Str("Direct seed"))] >>],
      [has_data |-> TRUE,
       data |-> << [has_attributes |-> TRUE,
                    attributes |-> CropAttributes(Str("Tomato"), NONE,
                                                  <<>>, MISSING)] >> ] }

NoBody == [has_data |-> FALSE, data |-> <<>>]

CropResponses ==
    {Response(n, 200, NoBody) : n \in {"Timeout", "ConnectionError"}}
    \cup {Response("ok", st, NoBody) : st \in {404, 500}}
    \cup {Response("ok", 200, b) : b \in CropBodies}

Day(date, rain) == [date |-> date, daily_chance_of_rain |-> rain]

WeatherBody(has_location, has_current, forecastday) ==
    [has_location |-> has_location,
     location |-> [name |-> Str("Salem"), region |-> Str("Tamil Nadu")],
     has_current |-> has_current,
     current |-> <<Str("31.0"), Str("Sunny"), Str("9.4"), Str("40"), Str("7.0")>>,
     astro |-> <<Str("06:10 AM"), Str("06:25 PM")>>,
     forecastday |-> forecastday]

ThreeDays == <<Day(Str("2025-03-18"), Str("10")), Day(Str("2025-03-19"), Str("60")),
               Day(Str("2025-03-20"), Str("0"))>>

\* the bodies the weather service is modelled to answer with
WeatherBodies ==
    { WeatherBody(TRUE, TRUE, ThreeDays),
      WeatherBody(FALSE, TRUE, ThreeDays),
      WeatherBody(TRUE, FALSE, ThreeDays),
      WeatherBody(TRUE, TRUE, <<>>) }

WeatherResponses ==
    {Response(n, 200, WeatherBody(FALSE, FALSE, <<>>)) : n \in {"Timeout", "ConnectionError"}}
    \cup {Response("ok", st, WeatherBody(FALSE, FALSE, <<>>)) : st \in {400, 500}}
    \cup {Response("ok", 200, b) : b \in WeatherBodies}

\* RequestException with the HTTPError of raise_for_status left out
RequestException_NoHTTPError == {"Timeout", "ConnectionError"}

\* the exception classes `except requests.exceptions.RequestException` catches
RequestException == {"Timeout", "ConnectionError", "HTTPError"}

\* what a call gives its caller: a value, or an exception that escapes
Returns(text) == [raised |-> "none", value |-> text]
Raises(exc) == [raised |-> exc, value |-> Fixed("")]

CROP_FAILED ==
    Fixed("Failed to fetch crop information. The API might be down or your request failed.")
CROP_NOT_FOUND == Fixed("No information found for this crop.")
WEATHER_FAILED ==
    Fixed("Unable to fetch weather. Please check the city name or try again.")

\* requests.get(url, timeout=10) followed by response.raise_for_status()
\* (lines 104-105, 128-129): the exception they raise, or "none"
http_get(resp) ==
    IF resp.net # "ok" THEN resp.net
    ELSE IF resp.status >= 400 THEN "HTTPError"
    ELSE "none"

\* the try block of get_crop_info (lines 104-120)
crop_try(crop_name, resp) ==
    IF http_get(resp) # "none" THEN Raises(http_get(resp))
    ELSE LET crops == IF resp.body.has_data THEN resp.body.data ELSE <<>>
         IN  IF crops # <<>>
             THEN IF ~crops[1].has_attributes THEN Raises("KeyError")
                  ELSE LET crop == crops[1].attributes
                       IN  Returns(Text("crop", get_or_na(crop.name),
                                 << or_not_available(get_or_na(crop.description)),
                                    or_not_available(get_or_na(crop.sun_requirements)),
                                    or_not_available(get_or_na(crop.sowing_method)) >>,
                                 <<>>, 0))
             ELSE Returns(CROP_NOT_FOUND)

\* get_crop_info
get_crop_info(crop_name, resp) ==
    LET r == crop_try(crop_name, resp)
    IN  IF r.raised \in RequestException THEN Returns(CROP_FAILED) ELSE r

\* the try block of get_detailed_weather (lines 128-156)
weather_try(query, resp) ==
    IF http_get(resp) # "none" THEN Raises(http_get(resp))
    ELSE LET data == resp.body
         IN  IF ~data.has_location \/ ~data.has_current THEN Raises("KeyError")
             ELSE IF data.forecastday = <<>> THEN Raises("IndexError")
             ELSE Returns(Text("Weather for", data.location.name,
                      <<data.location.region>> \o data.current \o data.astro
                        \o [i \in 1..Len(data.forecastday) |->
                              data.forecastday[i].date
                                \o data.forecastday[i].daily_chance_of_rain],
                      <<>>, Len(data.forecastday)))

\* get_detailed_weather
get_detailed_weather(query, resp) ==
    LET r == weather_try(query, resp)
    IN  IF r.raised \in RequestException THEN Returns(WEATHER_FAILED) ELSE r

(***************************************************************************)
(* Texts and keyboards of the handlers (src/app.py 22-31, 162-250).        *)
(***************************************************************************)
UNEXPECTED_ERROR == Fixed("An unexpected error occurred. Please try again later.")
WELCOME == Fixed("Welcome to MyAgriBot!")
MENU_TEXT == Fixed("Main Menu. How can I assist you today?")
HELP_TEXT == Fixed("MyAgriBot Help")
CROP_PROMPT == Fixed("Please enter the name of the crop (e.g., Tomato):")
LOCATION_PROMPT == Fixed("Please enter your city or location for the forecast:")
FETCHING == Fixed("Fetching data, please wait...")
SUPPORT == Fixed("Support. For issues, please contact support@myagribot.dev.")
SELECT_DISTRICT == Fixed("Please select a district:")
GUIDANCE == Fixed("I'm not sure what you mean. Use /start to see the main menu.")
SOMETHING_WRONG == Fixed("Something went wrong. Please start over with /start.")
SEARCHING(user_input) == Text("Searching for", user_input, <<>>, <<>>, 0)

InlineKeyboardButton(label, callback_data) ==
    [text |-> label, callback_data |-> callback_data]

MANDI_DISTRICT == "mandi_district_"

\* the keyboard of show_main_menu (lines 169-174)
MainMenuKeyboard ==
    << InlineKeyboardButton(Str("Get Crop Info"), Str("crop_info")),
       InlineKeyboardButton(Str("Get Weather Info"), Str("weather_info")),
       InlineKeyboardButton(Str("Mandi Prices"), Str("mandi_prices_menu")),
       InlineKeyboardButton(Str("Contact Support"), Str("contact_support")) >>

\* the keyboard of show_mandi_districts_menu (lines 230-231)
DistrictsKeyboard ==
    [i \in 1..Len(districts) |->
        InlineKeyboardButton(districts[i], <<MANDI_DISTRICT>> \o districts[i])]
    \o << InlineKeyboardButton(Str("Back to Menu"), Str("main_menu")) >>

\* line 218
BackToDistrictsKeyboard ==
    << InlineKeyboardButton(Str("Back to Districts"), Str("mandi_prices_menu")) >>

\* line 224
BackToMenuKeyboard ==
    << InlineKeyboardButton(Str("Back to Menu"), Str("main_menu")) >>

\* the payloads of a keyboard
Payloads(kb) == {kb[i].callback_data : i \in 1..Len(kb)}

\* the payloads a button selection is modelled to carry: those of the main
\* menu, those of the first NumPressed district buttons and of the back
\* button of the district list, and one that no branch of button_click knows
UNKNOWN_PAYLOAD == Str("settings")
CallbackData ==
    Payloads(MainMenuKeyboard)
    \cup {DistrictsKeyboard[i].callback_data :
            i \in {j \in 1..Len(DistrictsKeyboard) : j <= NumPressed}}
    \cup {Str("main_menu"), UNKNOWN_PAYLOAD}

\* the free texts a user is modelled to send
UserTexts == {Str("Tomato"), Str("Salem")}

(***************************************************************************)
(* State.                                                                  *)
(*   env         the environment os.getenv reads the two secrets from      *)
(*   concurrent_updates  whether the Application hands an update to its    *)
(*               handler while another handler is suspended; the builder   *)
(*               of main() leaves it at its default, False                 *)
(*   MANDI_DATA  the catalog generated at start-up                         *)
(*   user_data   context.user_data['state'] of each user ("absent": no key)*)
(*   screen      each user's message that carries the buttons: the one a   *)
(*               button selection was made on and edit_text changes        *)
(*   task        the handler invocations: the update (user, kind, data,    *)
(*               text), where the coroutine stands (pc), its locals        *)
(*               (state, response_text), what pop returned (popped), what  *)
(*               requests.get met (http), and what it has done so far:     *)
(*               answered, sent, calls, error (the exception that left     *)
(*               it), swallowed (error_handler could not send its notice)  *)
(***************************************************************************)
VARIABLES env, concurrent_updates, MANDI_DATA, user_data, screen, task

vars == <<env, concurrent_updates, MANDI_DATA, user_data, screen, task>>

\* what is settled when the module is loaded and main() builds the Application
startup == <<env, concurrent_updates, MANDI_DATA>>

\* os.getenv gives None for a variable that is not set
SecretValues == {NONE, <<>>, Str("<secret>")}
TOKEN == env.TELEGRAM_BOT_TOKEN
WEATHER_API_KEY == env.WEATHER_API_KEY
\* Python's `not` on a string or None
not_(v) == v \in {NONE, <<>>}

\* the check forgetting the weather key
StartupAborts_TokenOnly == not_(TOKEN)

\* lines 42-45: ValueError while the module is loaded, before main() is reached
StartupAborts == not_(TOKEN) \/ not_(WEATHER_API_KEY)

ABSENT == "absent"
AWAITING_CROP == "awaiting_crop"
AWAITING_LOCATION == "awaiting_location"

Message(text, kb) == [text |-> text, reply_markup |-> kb]
NoScreen == Message(Fixed(""), <<>>)

\* one call of the transport that put a message on a user's chat
Sent(op, via, chat, text, kb) ==
    [op |-> op, via |-> via, chat |-> chat, text |-> text, reply_markup |-> kb]

Idle ==
    [user |-> "-", kind |-> "idle", pc |-> "idle", data |-> <<>>, text |-> <<>>,
     state |-> ABSENT, popped |-> ABSENT, http |-> [net |-> "-", status |-> 0],
     response_text |-> Fixed(""), mandi_data |-> <<>>,
     formatted_data |-> Fixed(""), answered |-> FALSE,
     sent |-> <<>>, calls |-> <<>>, error |-> "none", swallowed |-> FALSE]

\* a handler called with an update of `kind` from user u
Invoke(u, kind, data, text) ==
    [Idle EXCEPT !.user = u, !.kind = kind, !.data = data, !.text = text]

Init ==
    /\ env \in [TELEGRAM_BOT_TOKEN : SecretValues, WEATHER_API_KEY : SecretValues]
    /\ concurrent_updates = FALSE
    /\ MANDI_DATA \in IF StartupAborts THEN {<<>>} ELSE Catalogs
    /\ user_data = [u \in Users |-> ABSENT]
    /\ screen = [u \in Users |-> NoScreen]
    /\ task = [t \in Tasks |-> Idle]

(***************************************************************************)
(* The transport (telegram).                                               *)
(***************************************************************************)
\* the field of the update a handler reaches the chat through
Channel(kind) == IF kind = "callback" THEN "callback_query.message" ELSE "message"

\* ChatOf with one chat for every user
ChatOf_Shared(u) == "u1"

\* the chat a send of user u's update goes to
ChatOf(u) == u

\* what a delivered call does to the screens: edit_text rewrites the message
\* the button was on; reply_text adds a message, which is the user's new
\* screen when it carries buttons
Deliver(op, chat, text, kb) ==
    IF op = "edit_text" \/ kb # <<>>
    THEN [screen EXCEPT ![chat] = Message(text, kb)]
    ELSE screen

\* the exception a failed transport call raises (telegram.error)
TelegramError == "TelegramError"

\* handler t, its locals now tk, awaits a send: it is delivered and the
\* handler goes on at `next`, or it raises
Await(t, tk, op, text, kb, next) ==
    \/ /\ screen' = Deliver(op, ChatOf(tk.user), text, kb)
       /\ task' = [task EXCEPT ![t] =
             [tk EXCEPT !.sent = Append(@, Sent(op, Channel(tk.kind), ChatOf(tk.user), text, kb)),
                        !.pc = next]]
    \/ /\ UNCHANGED screen
       /\ task' = [task EXCEPT ![t] =
             [tk EXCEPT !.pc = "error_handler", !.error = TelegramError]]

\* an exception that is no transport failure leaves handler t
Raise(t, tk, exc) ==
    /\ UNCHANGED screen
    /\ task' = [task EXCEPT ![t] = [tk EXCEPT !.pc = "error_handler", !.error = exc]]

\* main() is reached only when the module was loaded.  Application.run_polling
\* then handles one update at a time: an update is handed to its handler when
\* no handler is running, unless the Application was built with
\* concurrent_updates.  The handler takes the first free slot.
Accepts(t) ==
    /\ ~StartupAborts
    /\ task[t].pc = "idle"
    /\ \A s \in Tasks : s < t => task[s].pc # "idle"
    /\ concurrent_updates \/ \A s \in Tasks : task[s].pc = "idle"

(***************************************************************************)
(* Handlers.                                                               *)
(***************************************************************************)
\* show_main_menu always replying with a new message
show_main_menu_Reply(t, tk, next) ==
    Await(t, tk, "reply_text", MENU_TEXT, MainMenuKeyboard, next)

\* show_main_menu (lines 168-181)
show_main_menu(t, tk, next) ==
    IF tk.kind = "callback"
    THEN Await(t, tk, "edit_text", MENU_TEXT, MainMenuKeyboard, next)
    ELSE Await(t, tk, "reply_text", MENU_TEXT, MainMenuKeyboard, next)

\* show_mandi_districts_menu (lines 229-233)
show_mandi_districts_menu(t, tk, next) ==
    Await(t, tk, "edit_text", SELECT_DISTRICT, DistrictsKeyboard, next)

\* start resetting the flag as a button selection does
Start_Resets(t, u) ==
    /\ Accepts(t)
    /\ Await(t, Invoke(u, "start", <<>>, <<>>), "reply_text", WELCOME, <<>>, "start_166")
    /\ user_data' = [user_data EXCEPT ![u] = ABSENT]
    /\ UNCHANGED startup

\* start, to its first await (line 163)
Start(t, u) ==
    /\ Accepts(t)
    /\ Await(t, Invoke(u, "start", <<>>, <<>>), "reply_text", WELCOME, <<>>, "start_166")
    /\ UNCHANGED <<startup, user_data>>

\* start, line 166
StartMenu(t) ==
    /\ task[t].pc = "start_166"
    /\ show_main_menu(t, task[t], "done")
    /\ UNCHANGED <<startup, user_data>>

\* help_command (lines 183-192)
HelpCommand(t, u) ==
    /\ Accepts(t)
    /\ Await(t, Invoke(u, "help", <<>>, <<>>), "reply_text", HELP_TEXT, <<>>, "done")
    /\ UNCHANGED <<startup, user_data>>

\* button_click, to its first await: query.answer() (lines 195-196)
ButtonAnswer(t, u, data) ==
    /\ Accepts(t)
    /\ screen[u] # NoScreen
    /\ \/ task' = [task EXCEPT ![t] =
             [Invoke(u, "callback", data, <<>>) EXCEPT !.answered = TRUE, !.pc = "click_197"]]
       \/ task' = [task EXCEPT ![t] =
             [Invoke(u, "callback", data, <<>>) EXCEPT !.pc = "error_handler",
                                                       !.error = TelegramError]]
    /\ UNCHANGED <<startup, user_data, screen>>

\* FlagAfterClick without the pop of line 197
FlagAfterClick_NoPop(flag, data) ==
    IF data = Str("crop_info") THEN AWAITING_CROP
    ELSE IF data = Str("weather_info") THEN AWAITING_LOCATION
    ELSE flag

\* FlagAfterClick with the two flags of lines 201 and 205 exchanged
FlagAfterClick_Swapped(flag, data) ==
    IF data = Str("crop_info") THEN AWAITING_LOCATION
    ELSE IF data = Str("weather_info") THEN AWAITING_CROP
    ELSE ABSENT

\* the flag after lines 197-206: popped, then set by the two actions that
\* crop_info setting a flag that handle_message does not know
FlagAfterClick_Typo(flag, data) ==
    IF data = Str("crop_info") THEN "awaiting_crop_name"
    ELSE IF data = Str("weather_info") THEN AWAITING_LOCATION
    ELSE ABSENT

\* expect a free text
FlagAfterClick(flag, data) ==
    IF data = Str("crop_info") THEN AWAITING_CROP
    ELSE IF data = Str("weather_info") THEN AWAITING_LOCATION
    ELSE ABSENT

\* button_click, from the pop of the flag to the next await (lines 197-227)
ButtonClick(t) ==
    LET u == task[t].user
        data == task[t].data
        tk == [task[t] EXCEPT !.popped = user_data[u]]
    IN  /\ task[t].pc = "click_197"
        /\ user_data' = [user_data EXCEPT ![u] = FlagAfterClick(@, data)]
        /\ IF data = Str("crop_info")
             THEN Await(t, tk, "edit_text", CROP_PROMPT, <<>>, "done")
           ELSE IF data = Str("weather_info")
             THEN Await(t, tk, "edit_text", LOCATION_PROMPT, <<>>, "done")
           ELSE IF data = Str("mandi_prices_menu")
             THEN show_mandi_districts_menu(t, tk, "done")
           ELSE IF startswith(data, MANDI_DISTRICT)
             THEN Await(t, tk, "edit_text", FETCHING, <<>>, "click_214")
           ELSE IF data = Str("contact_support")
             THEN Await(t, tk, "edit_text", SUPPORT, BackToMenuKeyboard, "done")
           ELSE IF data = Str("main_menu")
             THEN show_main_menu(t, tk, "done")
           ELSE /\ task' = [task EXCEPT ![t] = [tk EXCEPT !.pc = "done"]]
                /\ UNCHANGED screen
        /\ UNCHANGED startup

\* button_click, a district was selected (lines 212, 214-218)
ButtonDistrict(t) ==
    LET district_name == replace_away(task[t].data, MANDI_DISTRICT)
        mandi_data == get_mandi_data_by_district(MANDI_DATA, district_name)
        formatted_data == format_mandi_data_simple(mandi_data)
        tk == [task[t] EXCEPT
                 !.calls = Append(@, [fn |-> "get_mandi_data_by_district",
                                      arg |-> district_name]),
                 !.mandi_data = mandi_data,
                 !.formatted_data = formatted_data]
    IN  /\ task[t].pc = "click_214"
        /\ Await(t, tk, "edit_text", formatted_data, BackToDistrictsKeyboard, "done")
        /\ UNCHANGED <<startup, user_data>>

\* not_state taking no flag for a missing one
not_state_Never(state) == FALSE

\* `if not state` (line 237)
not_state(state) == state = ABSENT

\* handle_message, to its first await (lines 236-241)
HandleMessage(t, u, user_input) ==
    LET state == user_data[u]
        tk == [Invoke(u, "text", <<>>, user_input) EXCEPT !.state = state]
    IN  /\ Accepts(t)
        /\ IF not_state(state)
           THEN Await(t, tk, "reply_text", GUIDANCE, <<>>, "done")
           ELSE Await(t, tk, "reply_text", SEARCHING(user_input), <<>>, "msg_242")
        /\ UNCHANGED <<startup, user_data>>

\* Adapter with the two branches of lines 242-245 exchanged
Adapter_Swapped(state) ==
    IF state = AWAITING_CROP THEN "get_detailed_weather"
    ELSE IF state = AWAITING_LOCATION THEN "get_crop_info"
    ELSE "none"

\* the adapter lines 242-247 choose by the flag read at line 236
Adapter(state) ==
    IF state = AWAITING_CROP THEN "get_crop_info"
    ELSE IF state = AWAITING_LOCATION THEN "get_detailed_weather"
    ELSE "none"

\* what the service of an adapter can answer
Responses(fn) ==
    IF fn = "get_crop_info" THEN CropResponses
    ELSE IF fn = "get_detailed_weather" THEN WeatherResponses
    ELSE {Response("-", 0, NoBody)}

\* response_text of lines 242-247
Lookup(fn, user_input, resp) ==
    IF fn = "get_crop_info" THEN get_crop_info(user_input, resp)
    ELSE IF fn = "get_detailed_weather" THEN get_detailed_weather(user_input, resp)
    ELSE Returns(SOMETHING_WRONG)

\* del forgetting to remove the key
del_state_Keep(flag) == flag

\* del never raising, as pop with a default would
del_raises_Never(flag) == FALSE

\* line 248, del context.user_data['state']: KeyError when the key is missing
del_raises(flag) == flag = ABSENT
del_state(flag) == ABSENT

\* handle_message, from the lookup to the reply with its result (lines 242-249)
HandleMessageLookup(t) ==
    LET u == task[t].user
        fn == Adapter(task[t].state)
    IN  /\ task[t].pc = "msg_242"
        /\ \E resp \in Responses(fn) :
             LET r == Lookup(fn, task[t].text, resp)
                 tk == [task[t] EXCEPT
                          !.calls = IF fn = "none" THEN @
                                    ELSE Append(@, [fn |-> fn, arg |-> task[t].text]),
                          !.http = [net |-> resp.net, status |-> resp.status],
                          !.response_text = r.value]
             IN  IF r.raised # "none"
                 THEN Raise(t, tk, r.raised) /\ UNCHANGED user_data
                 ELSE IF del_raises(user_data[u])
                 THEN Raise(t, tk, "KeyError") /\ UNCHANGED user_data
                 ELSE /\ user_data' = [user_data EXCEPT ![u] = del_state(@)]
                      /\ Await(t, tk, "reply_text", r.value, <<>>, "msg_250")
        /\ UNCHANGED startup

\* handle_message, line 250
HandleMessageMenu(t) ==
    /\ task[t].pc = "msg_250"
    /\ show_main_menu(t, task[t], "done")
    /\ UNCHANGED <<startup, user_data>>

\* ErrorChannel without the elif of lines 28-29
ErrorChannel_NoCallback(kind) ==
    IF kind \in {"start", "help", "text"} THEN "message" ELSE "none"

\* the field of the update error_handler reaches the chat through
\* (lines 26-29): update.message when there is one, or else
\* update.callback_query.message
ErrorChannel(kind) ==
    IF kind \in {"start", "help", "text"} THEN "message"
    ELSE IF kind = "callback" THEN "callback_query.message"
    ELSE "none"

\* error_handler (lines 22-31): the notice goes out as a new message; a
\* failure to send it is logged and goes no further
error_handler(t) ==
    LET tk == task[t]
        via == ErrorChannel(tk.kind)
    IN  /\ tk.pc = "error_handler"
        /\ \/ /\ via # "none"
              /\ task' = [task EXCEPT ![t] =
                    [tk EXCEPT !.sent = Append(@, Sent("reply_text", via, ChatOf(tk.user),
                                                       UNEXPECTED_ERROR, <<>>)),
                               !.pc = "done"]]
           \/ /\ via # "none"
              /\ task' = [task EXCEPT ![t] = [tk EXCEPT !.swallowed = TRUE, !.pc = "done"]]
           \/ /\ via = "none"
              /\ task' = [task EXCEPT ![t] = [tk EXCEPT !.pc = "done"]]
        /\ UNCHANGED <<startup, user_data, screen>>

\* the Application taking no further update after a handler has raised
Return_OnlyAfterSuccess(t) ==
    /\ task[t].pc = "done"
    /\ task[t].error = "none"
    /\ task' = [task EXCEPT ![t] = Idle]
    /\ UNCHANGED <<startup, user_data, screen>>

\* the handler, or the error handler after it, has returned
Return(t) ==
    /\ task[t].pc = "done"
    /\ task' = [task EXCEPT ![t] = Idle]
    /\ UNCHANGED <<startup, user_data, screen>>

Next ==
    \/ \E t \in Tasks, u \in Users : Start(t, u)
    \/ \E t \in Tasks : StartMenu(t)
    \/ \E t \in Tasks, u \in Users : HelpCommand(t, u)
    \/ \E t \in Tasks, u \in Users, data \in CallbackData : ButtonAnswer(t, u, data)
    \/ \E t \in Tasks : ButtonClick(t)
    \/ \E t \in Tasks : ButtonDistrict(t)
    \/ \E t \in Tasks, u \in Users, user_input \in UserTexts : HandleMessage(t, u, user_input)
    \/ \E t \in Tasks : HandleMessageLookup(t)
    \/ \E t \in Tasks : HandleMessageMenu(t)
    \/ \E t \in Tasks : error_handler(t)
    \/ \E t \in Tasks : Return(t)

Spec == Init /\ [][Next]_vars

(***************************************************************************)
(* Properties.                                                             *)
(***************************************************************************)
Last(seq) == seq[Len(seq)]

\* handler t has returned, or error_handler after it
Finished(t) == task[t].pc = "done"

\* handler t has returned and raised nothing
Normal(t) == task[t].pc = "done" /\ task[t].error = "none"

IsClick(t) == task[t].kind = "callback"
IsText(t) == task[t].kind = "text"

\* button_click t is past the pop of line 197
PastReset(t) == task[t].answered /\ task[t].pc # "click_197"

SetsFlag == {Str("crop_info"), Str("weather_info")}
AWAITING == {AWAITING_CROP, AWAITING_LOCATION}

\* C1, as stated: a button selection resets the flag before any other action
\* of the handler, so whenever button_click has done anything (it has
\* answered the callback query) the flag is none already, or is the flag
\* that crop_info or weather_info has set since.
C1_ResetBeforeAnyAction ==
    \A t \in Tasks :
        IsClick(t) /\ task[t].answered =>
            \/ user_data[task[t].user] = ABSENT
            \/ PastReset(t) /\ task[t].data \in SetsFlag

\* C1, amended: button_click first answers the callback query; once that
\* call has returned it resets the flag before anything else (nothing is
\* sent, edited or looked up before the reset), and from then on the flag of
\* a selection other than crop_info and weather_info is none, also when a
\* later edit fails; when the answer itself raises, button_click does
\* nothing more.
C1_ResetAfterAnswer ==
    \A t \in Tasks :
        IsClick(t) =>
            /\ task[t].pc = "click_197" =>
                  task[t].answered /\ task[t].sent = <<>> /\ task[t].calls = <<>>
            /\ PastReset(t) /\ task[t].data \notin SetsFlag =>
                  user_data[task[t].user] = ABSENT
            /\ ~task[t].answered =>
                  /\ task[t].error = TelegramError
                  /\ \A i \in DOMAIN task[t].sent : task[t].sent[i].op # "edit_text"

\* C1, witness: a selection of main_menu made while a crop name was pending
\* has returned and the flag is none.
C1_Witness ==
    \E t \in Tasks :
        /\ IsClick(t) /\ Normal(t)
        /\ task[t].data = Str("main_menu")
        /\ task[t].popped = AWAITING_CROP
        /\ user_data[task[t].user] = ABSENT

\* C2: once button_click is past its reset, the flag is awaiting_crop for
\* crop_info and awaiting_location for weather_info, whatever the flag was,
\* and is no awaiting value for any other payload; when the handler has
\* returned, its one edit has put the crop-name prompt, or the location
\* prompt, on the screen.
C2_PromptAndFlag ==
    \A t \in Tasks :
        IsClick(t) /\ PastReset(t) =>
            LET u == task[t].user
                prompt == IF task[t].data = Str("crop_info")
                          THEN CROP_PROMPT ELSE LOCATION_PROMPT
            IN  /\ task[t].data = Str("crop_info") => user_data[u] = AWAITING_CROP
                /\ task[t].data = Str("weather_info") => user_data[u] = AWAITING_LOCATION
                /\ task[t].data \notin SetsFlag => user_data[u] \notin AWAITING
                /\ task[t].data \in SetsFlag /\ Normal(t) =>
                      /\ screen[u] = Message(prompt, <<>>)
                      /\ task[t].sent =
                            << Sent("edit_text", "callback_query.message", u, prompt, <<>>) >>

\* C2, witness: weather_info selected while a crop name was pending: the
\* flag is awaiting_location and the screen is the location prompt.
C2_Witness ==
    \E t \in Tasks :
        /\ IsClick(t) /\ Normal(t)
        /\ task[t].data = Str("weather_info")
        /\ task[t].popped = AWAITING_CROP
        /\ user_data[task[t].user] = AWAITING_LOCATION
        /\ screen[task[t].user] = Message(LOCATION_PROMPT, <<>>)

ADAPTERS == {"get_crop_info", "get_detailed_weather"}

\* handle_message t has run lines 242-247: its acknowledgement was delivered
\* and it is past the lookup
Looked(t) ==
    /\ task[t].sent # <<>>
    /\ task[t].sent[1].text = SEARCHING(task[t].text)
    /\ task[t].pc # "msg_242"

\* C3: a free text is routed by the flag alone: past the lookup, the calls
\* of handle_message are exactly one call of get_crop_info with the text
\* when the flag was awaiting_crop, exactly one call of get_detailed_weather
\* with the text when it was awaiting_location; before the lookup, and with
\* no flag, there is no call; start, help_command and button_click never
\* call an adapter.
C3_RoutedByFlag ==
    \A t \in Tasks :
        /\ ~IsText(t) =>
              \A i \in DOMAIN task[t].calls : task[t].calls[i].fn \notin ADAPTERS
        /\ IsText(t) =>
              /\ task[t].state = AWAITING_CROP /\ Looked(t) =>
                    task[t].calls = << [fn |-> "get_crop_info", arg |-> task[t].text] >>
              /\ task[t].state = AWAITING_LOCATION /\ Looked(t) =>
                    task[t].calls = << [fn |-> "get_detailed_weather", arg |-> task[t].text] >>
              /\ task[t].state = ABSENT \/ ~Looked(t) => task[t].calls = <<>>

\* C3, witness: the text Salem, sent while a location was pending, has been
\* handled with one call of get_detailed_weather.
C3_Witness ==
    \E t \in Tasks :
        /\ IsText(t) /\ Normal(t)
        /\ task[t].state = AWAITING_LOCATION
        /\ task[t].text = Str("Salem")
        /\ task[t].calls = << [fn |-> "get_detailed_weather", arg |-> Str("Salem")] >>

\* C4, as stated: after a free text was handled in an awaiting state, the
\* flag is none whatever the adapter call came to.
C4_FlagNoneWhateverTheOutcome ==
    \A t \in Tasks :
        IsText(t) /\ Finished(t) /\ task[t].state \in AWAITING /\ task[t].calls # <<>> =>
            user_data[task[t].user] = ABSENT

\* C5: a free text of a user with no flag calls no adapter and no market
\* query, goes no further than its one reply and leaves the flag at none;
\* when the handler has returned, what it sent is exactly the guidance
\* message.
C5_Guidance ==
    \A t \in Tasks :
        IsText(t) /\ task[t].state = ABSENT =>
            /\ task[t].calls = <<>>
            /\ user_data[task[t].user] = ABSENT
            /\ task[t].pc \in {"done", "error_handler"}
            /\ Normal(t) =>
                  task[t].sent =
                     << Sent("reply_text", "message", task[t].user, GUIDANCE, <<>>) >>

\* C5, witness: a user who never saw a menu has sent a text and got the
\* guidance message.
C5_Witness ==
    \E t \in Tasks :
        /\ IsText(t) /\ Normal(t)
        /\ task[t].state = ABSENT
        /\ screen[task[t].user] = NoScreen
        /\ task[t].sent # <<>>

\* C6, as stated: a free text handled in an awaiting state, with every send
\* delivered, has sent exactly the acknowledgement, the adapter's result and
\* the main menu, in this order, each as a new message.
C6_ThreeMessages ==
    \A t \in Tasks :
        IsText(t) /\ Finished(t) /\ task[t].state \in AWAITING
        /\ task[t].error # TelegramError =>
            LET u == task[t].user
            IN  task[t].sent =
                   << Sent("reply_text", "message", u, SEARCHING(task[t].text), <<>>),
                      Sent("reply_text", "message", u, task[t].response_text, <<>>),
                      Sent("reply_text", "message", u, MENU_TEXT, MainMenuKeyboard) >>

\* requests.get met a transport error or a non-success status
HttpFailed(t) ==
    \/ task[t].http.net \in {"Timeout", "ConnectionError"}
    \/ task[t].http.net = "ok" /\ task[t].http.status >= 400

\* C7: when the HTTP call of an adapter raises a transport error or comes
\* back with a non-success status, the adapter returns its own failure
\* string and no exception of the adapter reaches handle_message.
C7_AdapterFailureString ==
    \A t \in Tasks :
        IsText(t) /\ task[t].calls # <<>> /\ HttpFailed(t) =>
            /\ task[t].error \in {"none", TelegramError}
            /\ task[t].response_text =
                  IF task[t].calls[1].fn = "get_crop_info"
                  THEN CROP_FAILED ELSE WEATHER_FAILED

\* C7, witness: the weather service answered 500 and handle_message went on
\* with the failure string of get_detailed_weather.
C7_Witness ==
    \E t \in Tasks :
        /\ IsText(t) /\ Normal(t)
        /\ task[t].calls # <<>> /\ task[t].calls[1].fn = "get_detailed_weather"
        /\ task[t].http = [net |-> "ok", status |-> 500]
        /\ task[t].response_text = WEATHER_FAILED

\* the notices of error_handler among what handler t sent
Notices(t) == {i \in DOMAIN task[t].sent : task[t].sent[i].text = UNEXPECTED_ERROR}

\* C8: an exception that leaves a handler goes to error_handler and nowhere
\* else; when error_handler has returned it has sent exactly one notice, as
\* a new message on the chat of the update (through update.message for a
\* command or a text, through the clicked message for a button selection),
\* or its send failed and it sent none; a handler that raised nothing sends
\* no notice.
C8_OneNotice ==
    \A t \in Tasks :
        /\ task[t].error = "none" =>
              Notices(t) = {} /\ ~task[t].swallowed /\ task[t].pc # "error_handler"
        /\ task[t].error # "none" =>
              /\ task[t].pc \in {"error_handler", "done"}
              /\ task[t].pc = "error_handler" => Notices(t) = {} /\ ~task[t].swallowed
              /\ task[t].pc = "done" /\ task[t].swallowed => Notices(t) = {}
              /\ task[t].pc = "done" /\ ~task[t].swallowed =>
                    /\ Notices(t) = {Len(task[t].sent)}
                    /\ Last(task[t].sent) =
                          Sent("reply_text",
                               IF task[t].kind = "callback"
                               THEN "callback_query.message" ELSE "message",
                               task[t].user, UNEXPECTED_ERROR, <<>>)

\* C8, witness: a button selection whose edit failed has ended with the
\* notice sent through the clicked message.
C8_Witness ==
    \E t \in Tasks :
        /\ IsClick(t) /\ Finished(t)
        /\ task[t].answered /\ task[t].error = TelegramError
        /\ task[t].sent # <<>>
        /\ Last(task[t].sent).text = UNEXPECTED_ERROR
        /\ Last(task[t].sent).via = "callback_query.message"

\* C9: a step of a handler of user a changes neither the flag nor the screen
\* of any other user, and everything the handler has sent went to a's chat;
\* this holds of every step, those that raise included.
C9_Disjoint ==
    [][\A t \in Tasks :
          task'[t] # task[t] =>
             LET a == IF task'[t].pc # "idle" THEN task'[t].user ELSE task[t].user
             IN  /\ \A u \in Users \ {a} :
                       user_data'[u] = user_data[u] /\ screen'[u] = screen[u]
                 /\ \A i \in DOMAIN task'[t].sent : task'[t].sent[i].chat = a]_vars

\* C9, witness: a free text of u2 has ended in error_handler while u1 is
\* on the crop-name prompt with a crop name pending.
C9_Witness ==
    \E t \in Tasks :
        /\ task[t].user = "u2" /\ IsText(t) /\ Finished(t)
        /\ task[t].error = "KeyError"
        /\ user_data["u2"] = AWAITING_LOCATION
        /\ user_data["u1"] = AWAITING_CROP
        /\ screen["u1"] = Message(CROP_PROMPT, <<>>)

\* the district whose button carries the payload data
DistrictOf(data) ==
    CHOOSE d \in {districts[i] : i \in 1..Len(districts)} : data = <<MANDI_DISTRICT>> \o d

IsDistrictPayload(data) ==
    \E i \in 1..Len(districts) : data = <<MANDI_DISTRICT>> \o districts[i]

\* C10: when start has returned, the screen is the main menu with its 4
\* actions; when a selection of mandi_prices_menu has returned, the screen
\* is the district list: one action per district of the fixed list of 15,
\* with the payload mandi_district_<d>, and then the back-to-menu action;
\* when the selection of the action of a district d of that list has
\* returned, the screen is the no-data message or a summary all of whose
\* records have district d, with the one action back to the district list.
C10_MandiNavigation ==
    \A t \in Tasks :
        Normal(t) =>
            LET scr == screen[task[t].user]
            IN  /\ task[t].kind = "start" =>
                      /\ scr.text = MENU_TEXT
                      /\ Len(scr.reply_markup) = 4
                      /\ Payloads(scr.reply_markup) =
                            {Str("crop_info"), Str("weather_info"),
                             Str("mandi_prices_menu"), Str("contact_support")}
                /\ IsClick(t) /\ task[t].data = Str("mandi_prices_menu") =>
                      /\ scr.text = SELECT_DISTRICT
                      /\ Len(districts) = 15
                      /\ Len(scr.reply_markup) = 15 + 1
                      /\ \A i \in 1..15 :
                            scr.reply_markup[i].callback_data = <<MANDI_DISTRICT>> \o districts[i]
                      /\ scr.reply_markup[16].callback_data = Str("main_menu")
                /\ IsClick(t) /\ IsDistrictPayload(task[t].data) =>
                      /\ \/ scr.text = NO_DATA
                         \/ /\ scr.text.id = "Mandi Prices for"
                            /\ scr.text.blocks # <<>>
                            /\ \A i \in DOMAIN scr.text.blocks :
                                  scr.text.blocks[i].district = DistrictOf(task[t].data)
                      /\ Len(scr.reply_markup) = 1
                      /\ scr.reply_markup[1].callback_data = Str("mandi_prices_menu")

\* C10, witness: in a catalog of more than one district, the action of
\* Chennai was selected on the district list and the screen is a summary.
C10_Witness ==
    \E t \in Tasks :
        /\ IsClick(t) /\ Normal(t)
        /\ task[t].data = <<MANDI_DISTRICT>> \o districts[1]
        /\ screen[task[t].user].text.id = "Mandi Prices for"
        /\ \E i \in DOMAIN MANDI_DATA : MANDI_DATA[i].district # districts[1]

(***************************************************************************)
(* The market query on any catalog.                                        *)
(* get_mandi_data_by_district and format_mandi_data_simple are functions   *)
(* of the catalog and of the queried name.  This specification gives them  *)
(* catalogs of every length up to MaxLen, whose districts are written in   *)
(* several ways, and queried names that reach button_click in the payload  *)
(* of a selection made on the district list.                               *)
(***************************************************************************)
\* the longest catalog
MaxLen == 6

StoredDistricts ==
    { districts[1],
      <<" ","c","h","e","n","n","a","i","\n">>,
      districts[5] }

QueryRecords == {Rec(d, "Tomato") : d \in StoredDistricts}
QueryCatalogs == UNION {[1..n -> QueryRecords] : n \in 0..MaxLen}

QueryNames ==
    { districts[1],
      <<"\t","C","H","E","N","N","A","I"," ">>,
      <<"C","h","e","n">>,
      <<"s","a","l","e","m">>,
      districts[6] }

QueryPayloads == {<<MANDI_DISTRICT>> \o q : q \in QueryNames}

\* u1 has opened the district list
InitQuery ==
    /\ env = [TELEGRAM_BOT_TOKEN |-> Str("<secret>"), WEATHER_API_KEY |-> Str("<secret>")]
    /\ concurrent_updates = FALSE
    /\ MANDI_DATA \in QueryCatalogs
    /\ user_data = [u \in Users |-> ABSENT]
    /\ screen = [u \in Users |->
                   IF u = "u1" THEN Message(SELECT_DISTRICT, DistrictsKeyboard)
                   ELSE NoScreen]
    /\ task = [t \in Tasks |-> Idle]

NextQuery ==
    \/ \E t \in Tasks, u \in Users, data \in QueryPayloads : ButtonAnswer(t, u, data)
    \/ \E t \in Tasks : ButtonClick(t)
    \/ \E t \in Tasks : ButtonDistrict(t)
    \/ \E t \in Tasks : error_handler(t)
    \/ \E t \in Tasks : Return(t)

SpecQuery == InitQuery /\ [][NextQuery]_vars

\* button_click has called the two functions (lines 214-215)
Queried(t) == IsClick(t) /\ task[t].calls # <<>>

\* C11: format_mandi_data_simple gives exactly the no-data message for no
\* record; for L >= 1 records it gives the header naming the district of the
\* first record, followed by min(L, 5) blocks, the i-th being that of the
\* i-th record, and the note on further records if and only if L > 5, the
\* note then giving L - 5.
C11_Summary ==
    \A t \in Tasks :
        Queried(t) =>
            LET records == task[t].mandi_data
                out == task[t].formatted_data
                L == Len(records)
            IN  IF L = 0 THEN out = NO_DATA
                ELSE /\ out # NO_DATA
                     /\ out.id = "Mandi Prices for"
                     /\ out.name = records[1].district
                     /\ Len(out.blocks) = (IF L < 5 THEN L ELSE 5)
                     /\ \A i \in 1..Len(out.blocks) : out.blocks[i] = records[i]
                     /\ (out.n # 0) <=> (L > 5)
                     /\ L > 5 => out.n = L - 5

\* C11, witness: a summary of six matching records has been displayed: five
\* blocks and the note on one more record.
C11_Witness ==
    \E t \in Tasks :
        /\ Queried(t) /\ Normal(t)
        /\ Len(task[t].mandi_data) = 6
        /\ Len(task[t].formatted_data.blocks) = 5
        /\ task[t].formatted_data.n = 1
        /\ screen[task[t].user].text = task[t].formatted_data

\* two characters that are the same letter, whatever their case
SameLetter(a, b) == a = b \/ \E k \in 1..26 : {a, b} = {UPPER[k], LOWER[k]}

\* s[i..j] is s without the whitespace around it (j = i - 1: nothing is left)
Unpadded(s, i, j) ==
    /\ i <= j + 1
    /\ \A x \in 1..Len(s) : (x < i \/ x > j) => s[x] \in WHITESPACE
    /\ i <= j => s[i] \notin WHITESPACE /\ s[j] \notin WHITESPACE

\* a and b are the same name once the whitespace around each is put aside,
\* letter by letter and whatever the case
SameDistrict(a, b) ==
    \E i \in 1..Len(a) + 1, j \in 0..Len(a) :
        /\ Unpadded(a, i, j)
        /\ \E k \in 1..Len(b) + 1, l \in 0..Len(b) :
              /\ Unpadded(b, k, l)
              /\ j - i = l - k
              /\ \A x \in 0..(j - i) : SameLetter(a[i + x], b[k + x])

\* the positions of a catalog whose district is the queried name
Matching(catalog, name) ==
    {i \in 1..Len(catalog) : SameDistrict(catalog[i].district, name)}

\* C12: for a catalog of any size N >= 0 and any queried name,
\* get_mandi_data_by_district returns records of the catalog whose district
\* is the queried name once both are trimmed and whatever the case, never a
\* record whose district only begins with or contains the name: it returns
\* all of them, in the order of the catalog, so at most N; when none
\* matches it returns the empty sequence and nothing is raised.
C12_Filter ==
    \A t \in Tasks :
        Queried(t) =>
            LET name == task[t].calls[1].arg
                found == task[t].mandi_data
                hits == Matching(MANDI_DATA, name)
            IN  /\ \A i \in 1..Len(found) : SameDistrict(found[i].district, name)
                /\ Len(found) <= Len(MANDI_DATA)
                /\ Len(found) = Cardinality(hits)
                /\ found = SelectSeq(MANDI_DATA, LAMBDA rec : SameDistrict(rec.district, name))
                /\ hits = {} => found = <<>>
                /\ task[t].error \in {"none", TelegramError}

\* C12, witness: the name was queried in capitals between a tab and a space,
\* the catalog holds it twice, once as the list writes it and once in small
\* letters between a space and a newline, and holds another district too:
\* the two records are returned.
C12_Witness ==
    \E t \in Tasks :
        /\ Queried(t) /\ Normal(t)
        /\ task[t].calls[1].arg = <<"\t","C","H","E","N","N","A","I"," ">>
        /\ Len(MANDI_DATA) = 3
        /\ Len(task[t].mandi_data) = 2
        /\ task[t].mandi_data[1].district # task[t].mandi_data[2].district

MainMenuScreen == Message(MENU_TEXT, MainMenuKeyboard)

\* the flag of u is none and the main menu is what u sees
AtMainMenu(u) == user_data[u] = ABSENT /\ screen[u] = MainMenuScreen

\* C13: whatever the configuration, the step of button_click that handles an
\* answered selection of main_menu leaves the flag none and, when its edit is
\* delivered, has made one send, the edit of the message to the main-menu
\* text with the same four actions, so the main menu is displayed; and when
\* the configuration was already that one (flag none, main menu displayed:
\* the second and later selections in a row) it is the same afterwards,
\* whether the edit was delivered or not.
C13_MainMenuIdempotent ==
    [][ \A t \in Tasks :
          LET u == task[t].user
          IN  (/\ task[t].pc = "click_197"
               /\ task[t].data = Str("main_menu")
               /\ task'[t] # task[t])
              => /\ user_data'[u] = ABSENT
                 /\ task'[t].pc = "done" =>
                       /\ task'[t].sent = << Sent("edit_text", "callback_query.message",
                                                  u, MENU_TEXT, MainMenuKeyboard) >>
                       /\ Len(MainMenuKeyboard) = 4
                       /\ AtMainMenu(u)'
                 /\ AtMainMenu(u) => AtMainMenu(u)'
      ]_vars

\* C13, witness: main_menu was selected while the flag was none and the main
\* menu displayed; the handler has reset the flag, its edit was not
\* delivered, and the configuration is still the one of the first selection.
C13_Witness ==
    \E t \in Tasks :
        /\ IsClick(t) /\ Finished(t)
        /\ task[t].data = Str("main_menu")
        /\ task[t].answered
        /\ task[t].error = TelegramError
        /\ task[t].popped = ABSENT
        /\ AtMainMenu(task[t].user)

\* a payload that button_click has no branch for
Unrecognized(data) ==
    /\ data \notin {Str("crop_info"), Str("weather_info"), Str("mandi_prices_menu"),
                    Str("contact_support"), Str("main_menu")}
    /\ ~(Len(data) >= 1 /\ data[1] = MANDI_DISTRICT)

\* C14: a selection whose payload is none of crop_info, weather_info,
\* mandi_prices_menu, contact_support, main_menu and does not begin with
\* mandi_district_ changes no screen at any step of its handling; once it is
\* answered, the handler returns having sent and edited nothing, called no
\* adapter and raised nothing.
C14_UnknownIgnored ==
    [][ \A t \in Tasks :
          (/\ task'[t] # task[t]
           /\ IsClick(t)' /\ Unrecognized(task'[t].data))
          => /\ screen' = screen
             /\ task'[t].answered =>
                   /\ task'[t].pc \in {"click_197", "done"}
                   /\ task'[t].sent = <<>>
                   /\ task'[t].calls = <<>>
                   /\ task'[t].error = "none"
                   /\ ~task'[t].swallowed
      ]_vars

\* C14, witness: a selection with an unknown payload, made on the main menu
\* while a crop name was expected, has returned: nothing was sent and the
\* main menu is still displayed.
C14_Witness ==
    \E t \in Tasks :
        /\ IsClick(t) /\ Normal(t)
        /\ Unrecognized(task[t].data)
        /\ task[t].popped = AWAITING_CROP
        /\ task[t].sent = <<>>
        /\ screen[task[t].user] = MainMenuScreen

(***************************************************************************)
(* One user who keeps writing.                                             *)
(* The program with its two secrets set and the events of one user.  A     *)
(* suspended handler is resumed by the event loop (weak fairness of the    *)
(* steps of a running handler).  That a configuration can be reached is    *)
(* stated as: it is reached when the user keeps sending start and          *)
(* selecting main_menu and the transport, which may fail any call, does    *)
(* not fail the same call for ever (strong fairness of the delivered       *)
(* outcome of these four steps).                                           *)
(***************************************************************************)
Solo == "u1"

InitRecover == Init /\ ~StartupAborts

NextRecover ==
    \/ \E t \in Tasks : Start(t, Solo)
    \/ \E t \in Tasks : StartMenu(t)
    \/ \E t \in Tasks : HelpCommand(t, Solo)
    \/ \E t \in Tasks, data \in CallbackData : ButtonAnswer(t, Solo, data)
    \/ \E t \in Tasks : ButtonClick(t)
    \/ \E t \in Tasks : ButtonDistrict(t)
    \/ \E t \in Tasks, user_input \in UserTexts : HandleMessage(t, Solo, user_input)
    \/ \E t \in Tasks : HandleMessageLookup(t)
    \/ \E t \in Tasks : HandleMessageMenu(t)
    \/ \E t \in Tasks : error_handler(t)
    \/ \E t \in Tasks : Return(t)

\* a step of a handler that is running
Resumes ==
    \E t \in Tasks :
        \/ StartMenu(t) \/ ButtonClick(t) \/ ButtonDistrict(t)
        \/ HandleMessageLookup(t) \/ HandleMessageMenu(t)
        \/ error_handler(t) \/ Return(t)

StartDelivered == \E t \in Tasks : Start(t, Solo) /\ task'[t].pc = "start_166"
StartMenuDelivered == \E t \in Tasks : StartMenu(t) /\ task'[t].pc = "done"
MainMenuAnswered ==
    \E t \in Tasks : ButtonAnswer(t, Solo, Str("main_menu")) /\ task'[t].pc = "click_197"
MainMenuDelivered ==
    \E t \in Tasks :
        ButtonClick(t) /\ task[t].data = Str("main_menu") /\ task'[t].pc = "done"

SpecRecover ==
    /\ InitRecover /\ [][NextRecover]_vars
    /\ WF_vars(Resumes)
    /\ SF_vars(StartDelivered) /\ SF_vars(StartMenuDelivered)
    /\ SF_vars(MainMenuAnswered) /\ SF_vars(MainMenuDelivered)

\* a handler has raised
Faulted == \E t \in Tasks : task[t].error # "none"

\* what a selection leaves on the screen when its edits are delivered
TableScreen(data) ==
    IF data = Str("crop_info") THEN Message(CROP_PROMPT, <<>>)
    ELSE IF data = Str("weather_info") THEN Message(LOCATION_PROMPT, <<>>)
    ELSE IF data = Str("mandi_prices_menu") THEN Message(SELECT_DISTRICT, DistrictsKeyboard)
    ELSE IF data = Str("contact_support") THEN Message(SUPPORT, BackToMenuKeyboard)
    ELSE MainMenuScreen

\* the flag a selection leaves
TableFlag(data) ==
    IF data = Str("crop_info") THEN AWAITING_CROP
    ELSE IF data = Str("weather_info") THEN AWAITING_LOCATION
    ELSE ABSENT

\* C15: handlers may raise at any step, and in every configuration reached
\* that way a start whose sends are delivered ends on the main menu, a
\* button selection past its reset has set the flag of the transition table
\* and, when its edits are delivered, displays the screen of the table (for
\* a district: a result with the one action back to the list); and after
\* any fault the configuration with the flag none and the main menu
\* displayed is reached again.
C15_Recovers ==
    /\ [](\A t \in Tasks :
            LET u == task[t].user
                data == task[t].data
            IN  /\ task[t].kind = "start" /\ Normal(t) => screen[u] = MainMenuScreen
                /\ IsClick(t) /\ PastReset(t) => user_data[u] = TableFlag(data)
                /\ IsClick(t) /\ Normal(t) /\ ~Unrecognized(data) =>
                      IF IsDistrictPayload(data)
                      THEN screen[u].reply_markup = BackToDistrictsKeyboard
                      ELSE screen[u] = TableScreen(data))
    /\ (Faulted ~> AtMainMenu(Solo))

\* C15, witness: the lookup of a free text has raised KeyError, the error
\* handler has sent its notice, and the flag is still awaiting a crop name.
C15_Witness ==
    \E t \in Tasks :
        /\ IsText(t) /\ Finished(t)
        /\ task[t].user = Solo
        /\ task[t].error = "KeyError"
        /\ Len(task[t].sent) = 2
        /\ user_data[Solo] = AWAITING_CROP

\* a secret that is not set, or is set to nothing
Absent(v) == v = NONE \/ v = <<>>

\* C16: when the token or the weather key is absent, start-up has aborted
\* before the Application was built: no catalog was generated, no handler
\* has run or is running, no flag was set and no message was ever sent; so
\* a handler runs only when both secrets are present.
C16_NoSecretNoEvent ==
    (Absent(env.TELEGRAM_BOT_TOKEN) \/ Absent(env.WEATHER_API_KEY)) =>
        /\ MANDI_DATA = <<>>
        /\ \A t \in Tasks : task[t] = Idle
        /\ \A u \in Users : user_data[u] = ABSENT /\ screen[u] = NoScreen

\* C16, witness: the token is set and the weather key is not: nothing runs.
C16_Witness ==
    /\ env.TELEGRAM_BOT_TOKEN = Str("<secret>")
    /\ env.WEATHER_API_KEY = NONE
    /\ \A t \in Tasks : ~ENABLED Start(t, "u1")
    /\ \A t \in Tasks : task[t] = Idle

\* the acknowledgement of line 241, as handler t sends it
Ack(t) == Sent("reply_text", "message", task[t].user, SEARCHING(task[t].text), <<>>)

\* C17, as stated: with a flag awaiting a free text, handle_message calls the
\* adapter and clears the flag before it sends the acknowledgement, so as
\* soon as the acknowledgement was sent, or a send of the handler has
\* failed, the adapter has been called and the flag is none.
C17_ClearedBeforeAck ==
    \A t \in Tasks :
        (/\ IsText(t) /\ task[t].state \in AWAITING
         /\ task[t].sent # <<>> \/ task[t].error = TelegramError)
        => /\ task[t].calls # <<>>
           /\ user_data[task[t].user] = ABSENT

\* C17, amended: with a flag awaiting a free text, handle_message sends the
\* acknowledgement first, with the adapter not yet called and the flag
\* still set; it then calls the adapter and clears the flag before it sends
\* the result.  So when the result was sent, or the delivery of the result
\* or of the menu after it has failed, the flag is none; when the delivery
\* of the acknowledgement has failed, nothing was looked up and the flag is
\* still the awaiting one.
C17_AckThenClearThenResult ==
    \A t \in Tasks :
        IsText(t) /\ task[t].state \in AWAITING =>
            LET u == task[t].user
            IN  /\ task[t].pc = "msg_242" =>
                      /\ task[t].sent = <<Ack(t)>>
                      /\ task[t].calls = <<>>
                      /\ user_data[u] = task[t].state
                /\ task[t].calls # <<>> => task[t].sent[1] = Ack(t)
                /\ (Len(task[t].sent) >= 2 /\ task[t].sent[2].text # UNEXPECTED_ERROR) =>
                      /\ task[t].sent[2].text = task[t].response_text
                      /\ task[t].calls # <<>>
                      /\ user_data[u] = ABSENT
                /\ task[t].error = TelegramError /\ task[t].calls # <<>> =>
                      user_data[u] = ABSENT
                /\ task[t].error = TelegramError /\ task[t].calls = <<>> =>
                      /\ user_data[u] = task[t].state
                      /\ \A i \in DOMAIN task[t].sent : task[t].sent[i] # Ack(t)

\* C17, witness: the acknowledgement was delivered, the crop adapter was
\* called, the delivery of its result has failed, the error handler has
\* sent its notice, and the flag is none.
C17_Witness ==
    \E t \in Tasks :
        /\ IsText(t) /\ Finished(t)
        /\ task[t].state = AWAITING_CROP
        /\ task[t].error = TelegramError
        /\ task[t].calls # <<>>
        /\ Len(task[t].sent) = 2
        /\ task[t].sent[2].text = UNEXPECTED_ERROR
        /\ user_data[task[t].user] = ABSENT

(***************************************************************************)
(* Handlers of one user interleaved.                                       *)
(* main() builds the Application with its defaults, so the Application     *)
(* handles one update at a time (Spec).  This specification is the program *)
(* under an Application built with concurrent_updates: an update is handed *)
(* to its handler while another handler is suspended at an await, and the  *)
(* handlers go on in any order.  requests.get does not suspend: the lookup *)
(* and the del of line 248 are one step.  The user has selected crop_info: *)
(* the crop-name prompt is displayed and a crop name is expected; the user *)
(* sends crop names and selects main_menu.                                 *)
(***************************************************************************)
ConcurrentPayloads == {Str("main_menu")}
ConcurrentTexts == {Str("Tomato")}

InitConcurrent ==
    /\ env = [TELEGRAM_BOT_TOKEN |-> Str("<secret>"), WEATHER_API_KEY |-> Str("<secret>")]
    /\ concurrent_updates = TRUE
    /\ MANDI_DATA = [i \in 1..NumRecords |-> Rec(districts[1], "Tomato")]
    /\ user_data = [u \in Users |-> IF u = Solo THEN AWAITING_CROP ELSE ABSENT]
    /\ screen = [u \in Users |->
                   IF u = Solo THEN Message(CROP_PROMPT, <<>>) ELSE NoScreen]
    /\ task = [t \in Tasks |-> Idle]

NextConcurrent ==
    \/ \E t \in Tasks, data \in ConcurrentPayloads : ButtonAnswer(t, Solo, data)
    \/ \E t \in Tasks : ButtonClick(t)
    \/ \E t \in Tasks, user_input \in ConcurrentTexts : HandleMessage(t, Solo, user_input)
    \/ \E t \in Tasks : HandleMessageLookup(t)
    \/ \E t \in Tasks : HandleMessageMenu(t)
    \/ \E t \in Tasks : error_handler(t)
    \/ \E t \in Tasks : Return(t)

SpecConcurrent == InitConcurrent /\ [][NextConcurrent]_vars

\* the adapter has returned and the del of line 248 has raised
DelRaised(t) ==
    /\ IsText(t)
    /\ task[t].error = "KeyError"
    /\ task[t].response_text # Fixed("")

C19_ThreeFlags ==
    /\ \A u \in Users :
          /\ user_data[u] \in {"absent", "awaiting_crop", "awaiting_location"}
          /\ screen[u].text # SOMETHING_WRONG
    /\ \A t \in Tasks :
          /\ task[t].state \in {"absent", "awaiting_crop", "awaiting_location"}
          /\ task[t].response_text # SOMETHING_WRONG
          /\ \A i \in DOMAIN task[t].sent : task[t].sent[i].text # SOMETHING_WRONG
          /\ (/\ IsText(t) /\ task[t].state # "absent"
              /\ task[t].pc = "msg_250" \/ Normal(t)) =>
                /\ Len(task[t].calls) = 1
                /\ task[t].calls[1].fn \in {"get_crop_info", "get_detailed_weather"}

\* C19, witness: a free text sent while a location was expected has been
\* handled: the weather adapter was called and its result was sent between
\* the acknowledgement and the main menu.
C19_Witness ==
    \E t \in Tasks :
        /\ IsText(t) /\ Normal(t)
        /\ task[t].state = AWAITING_LOCATION
        /\ task[t].calls[1].fn = "get_detailed_weather"
        /\ Len(task[t].sent) = 3
        /\ task[t].sent[2].text = task[t].response_text
        /\ task[t].response_text \notin {SOMETHING_WRONG, Fixed("")}

\* C20: no step of start or help_command, or of the error handler after
\* them, changes the flag of any user; handle_message reads the flag as it
\* is when the text arrives, and with an awaiting flag it sends the
\* acknowledgement, never the guidance, and calls the adapter of that flag.
C20_StartKeepsFlag ==
    [][ \A t \in Tasks :
          /\ (/\ task'[t] # task[t]
              /\ task[t].kind \in {"start", "help"} \/ task'[t].kind \in {"start", "help"})
             => user_data' = user_data
          /\ (task[t].pc = "idle" /\ IsText(t)') =>
                /\ task'[t].state = user_data[task'[t].user]
                /\ task'[t].state \in AWAITING =>
                      /\ task'[t].pc \in {"msg_242", "error_handler"}
                      /\ \A i \in DOMAIN task'[t].sent :
                            task'[t].sent[i].text = SEARCHING(task'[t].text)
          /\ (task[t].pc = "msg_242" /\ task'[t] # task[t]) =>
                task'[t].calls =
                    << [fn |-> IF task[t].state = AWAITING_CROP
                               THEN "get_crop_info" ELSE "get_detailed_weather",
                        arg |-> task[t].text] >>
      ]_vars

\* C20, witness: a crop name was expected when start was sent, which put a
\* new main menu on the screen; the free text sent after it was
\* acknowledged and given to the crop adapter, whose result has been sent.
C20_Witness ==
    \E t \in Tasks :
        /\ IsText(t) /\ task[t].pc = "msg_250"
        /\ task[t].state = AWAITING_CROP
        /\ task[t].calls[1].fn = "get_crop_info"
        /\ Len(task[t].sent) = 2
        /\ screen[task[t].user] = MainMenuScreen

=============================================================================
